---- MODULE Spec2Model ----
(***************************************************************************)
(* Model of the ansible-gateway registration orchestrator                  *)
(* (src/ansible-gateway/main.go): the Redis hostname lock, the playbook    *)
(* selector, the streaming process runner and the two HTTP handlers.       *)
(* Strings are sequences of one-character strings so that concatenation,   *)
(* trimming, splitting and the validation patterns are computed.           *)
(* The producer/consumer batch of src/restore-cos-files is modelled by the *)
(* variables fileChan, scanner, workers, handled and mainPc (SpecCos).     *)
(***************************************************************************)
EXTENDS Integers, Sequences, FiniteSets, TLC

\* ------------------------------------------------------------------ bounds
MaxReqs == 4
PipeReqs == 2
MaxFaults == 1
MaxLines == 2
MaxWorkers == 2
MaxObjects == 3
\* the capacity of the key channel (1000 in the program), scaled down
ChanCap == 2

\* ----------------------------------------------------------------- strings
Digit == {"0", "1", "2", "3", "4", "5", "6", "7", "8", "9"}

Lower == {"a", "b", "c", "d", "e", "f", "g", "h", "i", "j", "k", "l", "m",
          "n", "o", "p", "q", "r", "s", "t", "u", "v", "w", "x", "y", "z"}

Upper == {"A", "B", "C", "D", "E", "F", "G", "H", "I", "J", "K", "L", "M",
          "N", "O", "P", "Q", "R", "S", "T", "U", "V", "W", "X", "Y", "Z"}

Alnum == Lower \cup Upper \cup Digit

Empty == << >>

RECURSIVE Split(_, _)
\* strings.Split(s, sep) for a one-character separator
Split(s, sep) ==
  IF \A i \in 1..Len(s) : s[i] # sep THEN << s >>
  ELSE LET i == CHOOSE j \in 1..Len(s) :
                   s[j] = sep /\ \A k \in 1..(j - 1) : s[k] # sep
       IN << SubSeq(s, 1, i - 1) >> \o Split(SubSeq(s, i + 1, Len(s)), sep)

RECURSIVE Join(_, _)
\* strings.Join(parts, sep)
Join(parts, sep) ==
  IF Len(parts) = 0 THEN Empty
  ELSE IF Len(parts) = 1 THEN parts[1]
  ELSE parts[1] \o << sep >> \o Join(Tail(parts), sep)

RECURSIVE TrimLeft(_, _)
TrimLeft(s, c) ==
  IF Len(s) > 0 /\ s[1] = c THEN TrimLeft(Tail(s), c) ELSE s

RECURSIVE TrimRight(_, _)
TrimRight(s, c) ==
  IF Len(s) > 0 /\ s[Len(s)] = c THEN TrimRight(SubSeq(s, 1, Len(s) - 1), c)
  ELSE s

\* strings.Trim(s, cutset) for a one-character cutset
Trim(s, c) == TrimRight(TrimLeft(s, c), c)

AllIn(s, set) == \A i \in 1..Len(s) : s[i] \in set

\* a non-empty run of [a-zA-Z0-9]
IsSegment(s) == Len(s) > 0 /\ AllIn(s, Alnum)

\* ^[a-zA-Z0-9]+-[a-zA-Z0-9]+(?:-[a-zA-Z0-9]+)*$
idRe(s) ==
  LET parts == Split(s, "-")
  IN Len(parts) >= 2 /\ \A i \in 1..Len(parts) : IsSegment(parts[i])

\* ^[a-zA-Z0-9]+-[a-zA-Z0-9]+(?:-[a-zA-Z0-9]+)*-\d{3}$
hostnameRe(s) ==
  LET parts == Split(s, "-")
      n == Len(parts)
  IN /\ n >= 3
     /\ \A i \in 1..n : IsSegment(parts[i])
     /\ Len(parts[n]) = 3
     /\ AllIn(parts[n], Digit)

\* 25[0-5]|2[0-4]\d|[0-1]\d{2}|[1-9]?\d
IsOctet(s) ==
  /\ AllIn(s, Digit)
  /\ \/ Len(s) = 1
     \/ Len(s) = 2 /\ s[1] # "0"
     \/ Len(s) = 3 /\ s[1] \in {"0", "1"}
     \/ Len(s) = 3 /\ s[1] = "2" /\ s[2] \in {"0", "1", "2", "3", "4"}
     \/ Len(s) = 3 /\ s[1] = "2" /\ s[2] = "5"
                   /\ s[3] \in {"0", "1", "2", "3", "4", "5"}

ipRe(s) ==
  LET parts == Split(s, ".")
  IN Len(parts) = 4 /\ \A i \in 1..4 : IsOctet(parts[i])

\* validate: "" when the request passes, else the name of the violated rule
validate(req) ==
  IF req.ID = Empty \/ req.Hostname = Empty \/ req.IP = Empty THEN "missing"
  ELSE IF ~idRe(req.ID) THEN "invalid id"
  ELSE IF ~hostnameRe(req.Hostname) THEN "invalid hostname"
  ELSE IF ~ipRe(req.IP) THEN "invalid ip"
  ELSE ""

\* hostgroup: the hostname without its last "-" separated part
HostGroup(hostname) ==
  LET parts == Split(hostname, "-")
  IN Join(SubSeq(parts, 1, Len(parts) - 1), "-")

\* the owner token written by register: req.ID + "__" + req.IP
OwnerToken(req) == req.ID \o << "_", "_" >> \o req.IP

\* the token unregister compares: strings.Trim(req.ID+"__"+req.IP, "_")
IncomingToken(req) == Trim(req.ID \o << "_", "_" >> \o req.IP, "_")

\* ------------------------------------------------------------ sample inputs
IdA == << "a", "-", "b" >>

IdB == << "c", "-", "d" >>

\* "_a-b": IdA with a leading underscore
IdPad == << "_" >> \o IdA

\* "web": a single segment
IdOne == << "w", "e", "b" >>

Host1 == << "w", "-", "x", "-", "0", "0", "1" >>

Ip1 == << "1", ".", "1", ".", "1", ".", "1" >>

InitReq(id, hostname, ip) == [ID |-> id, Hostname |-> hostname, IP |-> ip]

\* an HTTP request: method, whether the body decodes, and the decoded InitReq
HttpReq(method, json, r) == [method |-> method, json |-> json, req |-> r]

RegInputs ==
  { HttpReq("POST", TRUE, InitReq(id, Host1, Ip1)) : id \in {IdA, IdB, IdOne} }
    \cup { HttpReq("GET", TRUE, InitReq(IdA, Host1, Ip1)),
           HttpReq("POST", FALSE, InitReq(Empty, Empty, Empty)) }

UnregInputs ==
  { HttpReq("POST", TRUE, InitReq(id, Host1, ip)) :
      id \in {Empty, IdA, IdPad}, ip \in {Empty, Ip1} }
    \cup { HttpReq("POST", TRUE, InitReq(IdA, Empty, Ip1)),
           HttpReq("GET", TRUE, InitReq(Empty, Host1, Empty)),
           HttpReq("POST", FALSE, InitReq(Empty, Empty, Empty)) }

NoReq == InitReq(Empty, Empty, Empty)

\* the connections being served
Procs == {1, 2}

\* ------------------------------------------------------------------- state
VARIABLES
  lock,        \* Redis: hostname |-> value of field id__ip of key LOCK__hostname
  playbooks,   \* names (without .yml) of the playbook files under PlaybookRoot
  inventory,   \* LogDir: inventory file name |-> content
  cfg,         \* the loaded Config (timeouts)
  rev,         \* the revision of the playbook selector that is deployed
  reqsLeft,    \* requests the clients may still send
  faultsLeft,  \* environment faults that may still happen
  kind,        \* per connection: "none", "register" or "unregister"
  req,         \* per connection: the decoded InitReq
  pc,          \* per connection: position of the handler
  loc,         \* per connection: the handler's local variables
  ctxErr,      \* per connection: "" while ctx is live, else its error
  resp,        \* per connection: status sent on the wire and body lines
  outcome,     \* per connection: how the handler returned and the code it passed
  trace,       \* per connection: the side effects the handler performed
  run,         \* per connection: the subprocess, its pipes, the readers, the join
  linesLeft,   \* output lines the subprocesses may still produce
  fileChan,    \* restore-cos-files: the buffered key channel and its close calls
  scanner,     \* restore-cos-files: the producer goroutine
  workers,     \* restore-cos-files: the consumer goroutines, by id
  handled,     \* restore-cos-files: key sent |-> calls of restoreObject for it
  mainPc       \* restore-cos-files: position of main

lockVars == << lock, playbooks, inventory, cfg, rev >>

envVars == << reqsLeft, faultsLeft, linesLeft >>

procVars == << kind, req, pc, loc, ctxErr, resp, outcome, trace, run >>

cosVars == << fileChan, scanner, workers, handled, mainPc >>

vars == << lockVars, envVars, procVars, cosVars >>

\* ------------------------------------------------------------ the lock store
LockKey(hostname) == << "L", "O", "C", "K", "_", "_" >> \o hostname

\* sets the field even when it is present, reporting whether it was absent
HSetOverwrite(st, key, val) ==
  [ok |-> key \notin DOMAIN st,
   store |-> [k \in DOMAIN st \cup {key} |-> IF k = key THEN val ELSE st[k]]]

\* HSET in place of HSETNX: always sets the field and reports success
HSetAlways(st, key, val) ==
  [ok |-> TRUE,
   store |-> [k \in DOMAIN st \cup {key} |-> IF k = key THEN val ELSE st[k]]]

\* reports success without looking at the field
HSetBlind(st, key, val) == [ok |-> TRUE, store |-> st]

\* HSETNX key id__ip val: sets the field only when it is absent
HSetNX(st, key, val) ==
  IF key \in DOMAIN st
  THEN [ok |-> FALSE, store |-> st]
  ELSE [ok |-> TRUE,
        store |-> [k \in DOMAIN st \cup {key} |-> IF k = key THEN val ELSE st[k]]]

\* HGET key id__ip: the value, or "" (with redis.Nil) when absent
HGet(st, key) == IF key \in DOMAIN st THEN st[key] ELSE Empty

\* deletes nothing
DelNothing(st, key) == st

\* deletes every key
DelAll(st, key) == [k \in {} |-> Empty]

\* DEL key
Del(st, key) == [k \in DOMAIN st \ {key} |-> st[k]]

\* ------------------------------------------------------------- the response
Line(tag, a, b) == << tag, a, b >>

NoResp == [status |-> 0, body |-> << >>]

\* ResponseWriter.WriteHeader: only the first call sets the status
WriteHeader(r, code) == [r EXCEPT !.status = IF r.status = 0 THEN code ELSE r.status]

\* ResponseWriter.Write: sends status 200 first when no header was written
Write(r, line) == [status |-> IF r.status = 0 THEN 200 ELSE r.status,
                   body |-> Append(r.body, line)]

\* writes the message without setting the status
HttpErrorNoHeader(r, line, code) == Write(r, line)

\* http.Error(w, msg, code)
HttpError(r, line, code) == Write(WriteHeader(r, code), line)

\* logf: one timestamped line written to w and flushed
logf(r, tag, a, b) == Write(r, Line(tag, a, b))

Outcome(k, code) == [kind |-> k, code |-> code]

Running == Outcome("running", 0)

NoLoc == [okSet |-> FALSE, stored |-> Empty, playbook |-> Empty, stage |-> 0]

Streams == {"[OUT]", "[ERR]"}

NoRun == [shell |-> "none", child |-> FALSE, failed |-> FALSE,
          pipe |-> [s \in Streams |-> << >>],
          produced |-> [s \in Streams |-> << >>],
          reader |-> [s \in Streams |-> "none"],
          done |-> << >>, recv |-> 0, warn |-> "", sctx |-> "", base |-> 0]

\* --------------------------------------------------------- shared helpers
Idle(p) == pc[p] \in {"idle", "done"}

\* the server gives a new request the first free connection (connections are
\* interchangeable)
Accepts(p) == Idle(p) /\ \A q \in Procs : q < p => ~Idle(q)

\* a call on ctx fails when ctx is done; otherwise it may fail by a fault
MustFail(p) == ctxErr[p] # ""

Return(p, r, k, code) ==
  /\ resp' = [resp EXCEPT ![p] = r]
  /\ outcome' = [outcome EXCEPT ![p] = Outcome(k, code)]
  /\ pc' = [pc EXCEPT ![p] = "done"]

Did(p, what) == trace' = [trace EXCEPT ![p] = @ \cup what]

\* ----------------------------------------------------------- handleRegistry
\* method check, JSON decode, validate, response headers, ctx, first logf
\* (the ResponseWriter of net/http is an http.Flusher, so line 173 never fails)
RegStart(p, in) ==
  /\ Accepts(p)
  /\ reqsLeft > 0
  /\ reqsLeft' = reqsLeft - 1
  /\ kind' = [kind EXCEPT ![p] = "register"]
  /\ req' = [req EXCEPT ![p] = IF in.json THEN in.req ELSE NoReq]
  /\ loc' = [loc EXCEPT ![p] = NoLoc]
  /\ ctxErr' = [ctxErr EXCEPT ![p] = ""]
  /\ trace' = [trace EXCEPT ![p] = {}]
  /\ IF in.method # "POST"
     THEN Return(p, HttpError(NoResp, Line("method not allowed", Empty, Empty), 405),
                 "method", 405)
     ELSE IF ~in.json
     THEN Return(p, HttpError(NoResp, Line("invalid json", Empty, Empty), 400),
                 "badjson", 400)
     ELSE IF validate(in.req) # ""
     THEN Return(p, HttpError(NoResp, Line(validate(in.req), in.req.ID, in.req.Hostname), 400),
                 "invalid", 400)
     ELSE /\ resp' = [resp EXCEPT ![p] =
                        logf(NoResp, "[INFO] trying to register", LockKey(in.req.Hostname), Empty)]
          /\ outcome' = [outcome EXCEPT ![p] = Running]
          /\ pc' = [pc EXCEPT ![p] = "hsetnx"]
  /\ run' = [run EXCEPT ![p] = NoRun]
  /\ UNCHANGED << lockVars, faultsLeft, linesLeft >>
  /\ UNCHANGED cosVars

\* a.rdb.HSetNX(ctx, lockKey, "id__ip", val) and the branches on its result
RegHSetNX(p) ==
  /\ pc[p] = "hsetnx"
  /\ LET key == LockKey(req[p].Hostname)
         val == OwnerToken(req[p])
         r == HSetNX(lock, key, val)
     IN \/ /\ MustFail(p) \/ faultsLeft > 0
           /\ faultsLeft' = IF MustFail(p) THEN faultsLeft ELSE faultsLeft - 1
           /\ Return(p, HttpError(resp[p], Line("redis error", Empty, Empty), 500),
                     "storeerr", 500)
           /\ Did(p, {"HSetNX", "storeFail"})
           /\ UNCHANGED << lock, loc >>
        \/ /\ ~MustFail(p)
           /\ lock' = r.store
           /\ loc' = [loc EXCEPT ![p].okSet = r.ok]
           /\ Did(p, {"HSetNX"} \cup (IF r.store # lock THEN {"lockWritten"} ELSE {}))
           /\ IF r.ok
              THEN /\ resp' = [resp EXCEPT ![p] = logf(@, "[INFO] registered", Empty, Empty)]
                   /\ pc' = [pc EXCEPT ![p] = "select"]
              ELSE /\ pc' = [pc EXCEPT ![p] = "hget"]
                   /\ UNCHANGED resp
           /\ UNCHANGED << outcome, faultsLeft >>
  /\ UNCHANGED << playbooks, inventory, cfg, rev, reqsLeft, linesLeft, kind, req, ctxErr, run >>
  /\ UNCHANGED cosVars

\* stored, _ := a.rdb.HGet(ctx, lockKey, "id__ip").Result() and the comparison
RegHGet(p) ==
  /\ pc[p] = "hget"
  /\ LET key == LockKey(req[p].Hostname)
         val == OwnerToken(req[p])
     IN \E failed \in BOOLEAN :
          /\ failed => (MustFail(p) \/ faultsLeft > 0)
          /\ MustFail(p) => failed
          /\ faultsLeft' = IF failed /\ ~MustFail(p) THEN faultsLeft - 1 ELSE faultsLeft
          /\ Did(p, IF failed THEN {"HGet", "storeFail"} ELSE {"HGet"})
          /\ LET stored == IF failed THEN Empty ELSE HGet(lock, key)
             IN /\ loc' = [loc EXCEPT ![p].stored = stored]
                /\ IF stored # val
                   THEN Return(p, HttpError(resp[p], Line("[CONFLICT]", stored, val), 409),
                               "conflict", 409)
                   ELSE /\ resp' = [resp EXCEPT ![p] =
                                      logf(@, "[WARN] already registered (idempotent)", Empty, Empty)]
                        /\ pc' = [pc EXCEPT ![p] = "select"]
                        /\ UNCHANGED outcome
  /\ UNCHANGED << lockVars, reqsLeft, linesLeft, kind, req, ctxErr, run >>
  /\ UNCHANGED cosVars

\* ----------------------------------------------------------- selectPlaybook
DotYml == << ".", "y", "m", "l" >>

DefaultYml == << "d", "e", "f", "a", "u", "l", "t" >> \o DotYml

\* fileExists under PlaybookRoot
fileExists(files, name) == name \in files

\* prefers the default playbook when both exist
selectPlaybookDefaultWins(files, hostgroup) ==
  LET def == DefaultYml
      hg == hostgroup \o DotYml
      defExists == fileExists(files, def)
      hgExists == fileExists(files, hg)
  IN IF defExists
     THEN [playbook |-> def, warn |-> "hostgroup playbook missing; fallback to default",
           err |-> FALSE]
     ELSE IF hgExists
     THEN [playbook |-> hg, warn |-> "", err |-> FALSE]
     ELSE [playbook |-> Empty, warn |-> "", err |-> TRUE]

selectPlaybook(files, hostgroup) ==
  LET def == DefaultYml
      hg == hostgroup \o DotYml
      defExists == fileExists(files, def)
      hgExists == fileExists(files, hg)
  IN IF defExists /\ ~hgExists
     THEN [playbook |-> def, warn |-> "hostgroup playbook missing; fallback to default",
           err |-> FALSE]
     ELSE IF ~defExists /\ hgExists
     THEN [playbook |-> hg, warn |-> "", err |-> FALSE]
     ELSE IF defExists /\ hgExists
     THEN [playbook |-> hg, warn |-> "both default and hostgroup exist; prefer hostgroup",
           err |-> FALSE]
     ELSE [playbook |-> Empty, warn |-> "", err |-> TRUE]

\* the later revision with handleRegistry on gin (src/unnamed/part_019, first
\* program): base.yml or else base.yaml, .yml preferred when both exist
DotYaml == << ".", "y", "a", "m", "l" >>

Default == << "d", "e", "f", "a", "u", "l", "t" >>

findPlaybookFile2(files, base) ==
  LET ymlPath == base \o DotYml
      yamlPath == base \o DotYaml
      ymlExists == fileExists(files, ymlPath)
      yamlExists == fileExists(files, yamlPath)
  IN IF ymlExists THEN [path |-> ymlPath, exists |-> TRUE]
     ELSE IF yamlExists THEN [path |-> yamlPath, exists |-> TRUE]
     ELSE [path |-> Empty, exists |-> FALSE]

selectPlaybook2(files, hostgroup) ==
  LET def == findPlaybookFile2(files, Default)
      hg == findPlaybookFile2(files, hostgroup)
  IN IF def.exists /\ ~hg.exists
     THEN [playbook |-> def.path, warn |-> "hostgroup playbook missing; fallback to default",
           err |-> FALSE]
     ELSE IF ~def.exists /\ hg.exists
     THEN [playbook |-> hg.path, warn |-> "", err |-> FALSE]
     ELSE IF def.exists /\ hg.exists
     THEN [playbook |-> hg.path,
           warn |-> "both default and hostgroup playbook exist; prefer hostgroup",
           err |-> FALSE]
     ELSE [playbook |-> Empty, warn |-> "", err |-> TRUE]

\* the later revision with registerHost (src/unnamed/part_019, second
\* program): a base whose .yml and .yaml both exist is reported as not found
findPlaybookFile3(files, base) ==
  LET ymlPath == base \o DotYml
      yamlPath == base \o DotYaml
      ymlExists == fileExists(files, ymlPath)
      yamlExists == fileExists(files, yamlPath)
  IN IF ymlExists /\ yamlExists THEN [path |-> Empty, exists |-> FALSE]
     ELSE IF ymlExists THEN [path |-> ymlPath, exists |-> TRUE]
     ELSE IF yamlExists THEN [path |-> yamlPath, exists |-> TRUE]
     ELSE [path |-> Empty, exists |-> FALSE]

selectPlaybook3(files, hostgroup) ==
  LET def == findPlaybookFile3(files, Default)
      hg == findPlaybookFile3(files, hostgroup)
  IN IF def.exists /\ ~hg.exists
     THEN [playbook |-> def.path, warn |-> "hostgroup playbook missing; fallback to default",
           err |-> FALSE]
     ELSE IF ~def.exists /\ hg.exists
     THEN [playbook |-> hg.path, warn |-> "", err |-> FALSE]
     ELSE IF def.exists /\ hg.exists
     THEN [playbook |-> hg.path, warn |-> "both default and hostgroup exist; prefer hostgroup",
           err |-> FALSE]
     ELSE [playbook |-> Empty, warn |-> "", err |-> TRUE]

Revs == {1, 2, 3}

\* the selector of the deployed revision
Select(r, files, hostgroup) ==
  IF r = 1 THEN selectPlaybook(files, hostgroup)
  ELSE IF r = 2 THEN selectPlaybook2(files, hostgroup)
  ELSE selectPlaybook3(files, hostgroup)

\* goes from the selection straight to the first stage, without the inventory
RegSelectSkipInventory(p) ==
  /\ pc[p] = "select"
  /\ LET r == Select(rev, playbooks, HostGroup(req[p].Hostname))
         w0 == IF r.warn # "" THEN logf(resp[p], "[WARN]", << r.warn >>, Empty) ELSE resp[p]
         w == IF r.err /\ rev = 2 THEN logf(w0, "[ERROR]", Empty, Empty) ELSE w0
     IN IF r.err
        THEN /\ Return(p, HttpError(w, Line("playbook select error", Empty, Empty), 404),
                       "norecipe", 404)
             /\ UNCHANGED loc
        ELSE /\ resp' = [resp EXCEPT ![p] = logf(w, "[INFO] use playbook", r.playbook, Empty)]
             /\ loc' = [loc EXCEPT ![p].playbook = r.playbook, ![p].stage = 1]
             /\ pc' = [pc EXCEPT ![p] = "run"]
             /\ UNCHANGED outcome
  /\ Did(p, {"selectPlaybook"})
  /\ UNCHANGED << lockVars, envVars, kind, req, ctxErr, run >>
  /\ UNCHANGED cosVars

\* playbook, warn, err := selectPlaybook(...) and the branches on its result
\* (the three revisions call the selector in the same way; the second one
\* also logs the error)
RegSelect(p) ==
  /\ pc[p] = "select"
  /\ LET r == Select(rev, playbooks, HostGroup(req[p].Hostname))
         w0 == IF r.warn # "" THEN logf(resp[p], "[WARN]", << r.warn >>, Empty) ELSE resp[p]
         w == IF r.err /\ rev = 2 THEN logf(w0, "[ERROR]", Empty, Empty) ELSE w0
     IN IF r.err
        THEN /\ Return(p, HttpError(w, Line("playbook select error", Empty, Empty), 404),
                       "norecipe", 404)
             /\ UNCHANGED loc
        ELSE /\ resp' = [resp EXCEPT ![p] = logf(w, "[INFO] use playbook", r.playbook, Empty)]
             /\ loc' = [loc EXCEPT ![p].playbook = r.playbook]
             /\ pc' = [pc EXCEPT ![p] = "inventory"]
             /\ UNCHANGED outcome
  /\ Did(p, {"selectPlaybook"})
  /\ UNCHANGED << lockVars, envVars, kind, req, ctxErr, run >>
  /\ UNCHANGED cosVars

\* ---------------------------------------------------------- inventory file
Sep == << "_", "_" >>

\* names the file after the identity and the address only
InvBaseNoHost(r) == r.ID \o Sep \o r.IP \o << ".", "t", "x", "t" >>

InvBase(r) == r.ID \o Sep \o r.Hostname \o Sep \o r.IP \o << ".", "t", "x", "t" >>

InvContent(r) == << << "[" >> \o HostGroup(r.Hostname) \o << "]" >>, r.IP >>

WriteFile(files, name, content) ==
  [n \in DOMAIN files \cup {name} |-> IF n = name THEN content ELSE files[n]]

\* os.MkdirAll(LogDir) and os.WriteFile(invPath, ...)
RegInventory(p) ==
  /\ pc[p] = "inventory"
  /\ \/ /\ faultsLeft > 0
        /\ faultsLeft' = faultsLeft - 1
        /\ \E msg \in {"mkdir log_dir", "write inventory"} :
             Return(p, HttpError(resp[p], Line(msg, Empty, Empty), 500), "ioerr", 500)
        /\ UNCHANGED << inventory, loc, trace >>
     \/ /\ inventory' = WriteFile(inventory, InvBase(req[p]), InvContent(req[p]))
        /\ resp' = [resp EXCEPT ![p] = logf(@, "[INFO] inventory written", InvBase(req[p]), Empty)]
        /\ loc' = [loc EXCEPT ![p].stage = 1]
        /\ pc' = [pc EXCEPT ![p] = "run"]
        /\ Did(p, {"WriteFile"})
        /\ UNCHANGED << outcome, faultsLeft >>
  /\ UNCHANGED << lock, playbooks, cfg, rev, reqsLeft, linesLeft, kind, req, ctxErr, run >>
  /\ UNCHANGED cosVars

\* --------------------------------------------------------- handleUnregistry
\* method check, JSON decode, hostname check, header
UnregStart(p, in) ==
  /\ Accepts(p)
  /\ reqsLeft > 0
  /\ reqsLeft' = reqsLeft - 1
  /\ kind' = [kind EXCEPT ![p] = "unregister"]
  /\ req' = [req EXCEPT ![p] = IF in.json THEN in.req ELSE NoReq]
  /\ loc' = [loc EXCEPT ![p] = NoLoc]
  /\ ctxErr' = [ctxErr EXCEPT ![p] = ""]
  /\ trace' = [trace EXCEPT ![p] = {}]
  /\ IF in.method # "POST"
     THEN Return(p, HttpError(NoResp, Line("method not allowed", Empty, Empty), 405),
                 "method", 405)
     ELSE IF ~in.json
     THEN Return(p, HttpError(NoResp, Line("invalid json", Empty, Empty), 400),
                 "badjson", 400)
     ELSE IF in.req.Hostname = Empty
     THEN Return(p, HttpError(NoResp, Line("missing hostname", Empty, Empty), 400),
                 "invalid", 400)
     ELSE /\ resp' = [resp EXCEPT ![p] = NoResp]
          /\ outcome' = [outcome EXCEPT ![p] = Running]
          /\ pc' = [pc EXCEPT ![p] =
                      IF in.req.ID # Empty \/ in.req.IP # Empty THEN "uhget" ELSE "udel"]
  /\ run' = [run EXCEPT ![p] = NoRun]
  /\ UNCHANGED << lockVars, faultsLeft, linesLeft >>
  /\ UNCHANGED cosVars

\* stored, _ := a.rdb.HGet(...) and the comparison with the trimmed incoming token
UnregHGet(p) ==
  /\ pc[p] = "uhget"
  /\ LET key == LockKey(req[p].Hostname)
         incoming == IncomingToken(req[p])
     IN \E failed \in BOOLEAN :
          /\ failed => (MustFail(p) \/ faultsLeft > 0)
          /\ MustFail(p) => failed
          /\ faultsLeft' = IF failed /\ ~MustFail(p) THEN faultsLeft - 1 ELSE faultsLeft
          /\ Did(p, IF failed THEN {"HGet", "storeFail"} ELSE {"HGet"})
          /\ LET stored == IF failed THEN Empty ELSE HGet(lock, key)
             IN /\ loc' = [loc EXCEPT ![p].stored = stored]
                /\ IF stored # incoming
                   THEN Return(p, HttpError(resp[p], Line("mismatch", stored, incoming), 412),
                               "mismatch", 412)
                   ELSE /\ pc' = [pc EXCEPT ![p] = "udel"]
                        /\ UNCHANGED << resp, outcome >>
  /\ UNCHANGED << lockVars, reqsLeft, linesLeft, kind, req, ctxErr, run >>
  /\ UNCHANGED cosVars

\* _, _ = a.rdb.Del(ctx, lockKey).Result() and the JSON reply
UnregDel(p) ==
  /\ pc[p] = "udel"
  /\ LET key == LockKey(req[p].Hostname)
     IN \E failed \in BOOLEAN :
          /\ failed => (MustFail(p) \/ faultsLeft > 0)
          /\ MustFail(p) => failed
          /\ faultsLeft' = IF failed /\ ~MustFail(p) THEN faultsLeft - 1 ELSE faultsLeft
          /\ lock' = IF failed THEN lock ELSE Del(lock, key)
          /\ Did(p, (IF failed THEN {"Del", "storeFail"} ELSE {"Del"})
                     \cup (IF lock' # lock THEN {"lockDeleted"} ELSE {}))
          /\ Return(p, Write(resp[p], Line("ok deleted", key, Empty)), "deleted", 200)
  /\ UNCHANGED << playbooks, inventory, cfg, rev, reqsLeft, linesLeft, kind, req, loc, ctxErr, run >>
  /\ UNCHANGED cosVars

\* -------------------------------------------------------------- runAndStream
HostnameDefault == 60

PlaybookDefault == 7200

\* mustDur: the default when the configured text is empty, "0" or unparsable
\* (all three are the value 0 here)
mustDur(configured, d) == IF configured = 0 THEN d ELSE configured

StageTimeout(stage) ==
  IF stage = 1 THEN mustDur(cfg.HostnameTimeout, HostnameDefault)
  ELSE mustDur(cfg.PlaybookTimeout, PlaybookDefault)

StageCmd(stage) == IF stage = 1 THEN << "hostnamectl set-hostname" >> ELSE << "ansible-playbook" >>

\* what ends the handler after runAndStream returned err for a stage
StageFailed(p, r, err) ==
  Return(p, HttpError(r, Line(IF loc[p].stage = 1 THEN "hostname step failed"
                                                  ELSE "playbook step failed",
                              << err >>, Empty), 500),
         IF err = "command timeout" THEN "timeout" ELSE "stagefail", 500)

\* logf run, the derived context, exec.CommandContext, the pipes, cmd.Start
\* and the two reader goroutines
RunStart(p) ==
  /\ pc[p] = "run"
  /\ LET r == logf(resp[p], "[INFO] run", StageCmd(loc[p].stage), Empty)
     IN \/ /\ ctxErr[p] # ""
           /\ StageFailed(p, r, IF ctxErr[p] = "deadline" THEN "context deadline exceeded"
                                                     ELSE "context canceled")
           /\ UNCHANGED << run, faultsLeft, trace >>
        \/ /\ ctxErr[p] = ""
           /\ faultsLeft > 0
           /\ faultsLeft' = faultsLeft - 1
           /\ StageFailed(p, r, "start failed")
           /\ UNCHANGED << run, trace >>
        \/ /\ ctxErr[p] = ""
           /\ \E ch \in BOOLEAN :
                run' = [run EXCEPT ![p] =
                          [NoRun EXCEPT !.shell = "running", !.child = ch,
                                        !.reader = [s \in Streams |-> "scan"],
                                        !.base = Len(r.body)]]
           /\ resp' = [resp EXCEPT ![p] = r]
           /\ pc' = [pc EXCEPT ![p] = "join"]
           /\ Did(p, {IF loc[p].stage = 1 THEN "stage1" ELSE "stage2"})
           /\ UNCHANGED << outcome, faultsLeft >>
  /\ UNCHANGED << lockVars, reqsLeft, linesLeft, kind, req, loc, ctxErr >>
  /\ UNCHANGED cosVars

\* some process still holds the write ends of the pipes
Writable(r) == r.shell = "running" \/ r.child

\* cmd.Wait closes the read ends of the pipes after the shell was reaped
PipesOpen(r) == r.shell \notin {"none", "reaped"}

\* the shell or a command it started writes one line to stdout or stderr
ProcEmit(p, s, long) ==
  /\ PipesOpen(run[p])
  /\ Writable(run[p])
  /\ linesLeft > 0
  /\ linesLeft' = linesLeft - 1
  /\ LET n == Len(run[p].produced["[OUT]"]) + Len(run[p].produced["[ERR]"]) + 1
         ln == [text |-> << ToString(n) >>, long |-> long]
     IN run' = [run EXCEPT ![p].pipe[s] = Append(@, ln),
                           ![p].produced[s] = Append(@, ln)]
  /\ UNCHANGED << lockVars, reqsLeft, faultsLeft, kind, req, pc, loc, ctxErr, resp,
                  outcome, trace >>
  /\ UNCHANGED cosVars

\* a command started by the shell exits
ChildExit(p) ==
  /\ run[p].child
  /\ run' = [run EXCEPT ![p].child = FALSE]
  /\ UNCHANGED << lockVars, envVars, kind, req, pc, loc, ctxErr, resp, outcome, trace >>
  /\ UNCHANGED cosVars

\* the command the shell started (ansible, or ansible-playbook in the
\* pipeline of the apply stage) exits non-zero
ChildFail(p) ==
  /\ run[p].child
  /\ run' = [run EXCEPT ![p].child = FALSE, ![p].failed = TRUE]
  /\ UNCHANGED << lockVars, envVars, kind, req, pc, loc, ctxErr, resp, outcome, trace >>
  /\ UNCHANGED cosVars

\* the exit statuses the shell can have after its command has ended: the
\* status of the command for the simple command of the rename stage, and for
\* "cd ... && ansible-playbook ... 2>&1 | tee log" the status of tee, the last
\* command of the pipeline
ShellStatuses(stage, failed) ==
  IF stage = 1 /\ failed THEN {"exitN"} ELSE {"exit0", "exitN"}

\* the shell exits by itself, after the commands it waits for
ShellExit(p, status) ==
  /\ run[p].shell = "running"
  /\ ~run[p].child
  /\ status \in ShellStatuses(loc[p].stage, run[p].failed)
  /\ run' = [run EXCEPT ![p].shell = status]
  /\ UNCHANGED << lockVars, envVars, kind, req, pc, loc, ctxErr, resp, outcome, trace >>
  /\ UNCHANGED cosVars

\* the writers that are inside a Write on w: the reader goroutines and the
\* handler's own logf in the loop receiving from done (w has no lock)
InWrite(p) ==
  {s \in Streams : run[p].reader[s] = "write"}
    \cup (IF pc[p] = "warn" THEN {"logf"} ELSE {})

\* merge: Scan returns the next line of the pipe and Fprintf enters w.Write
\* (the line stays at the head of pipe[s] until it is written)
ReaderLine(p, s) ==
  /\ run[p].reader[s] = "scan"
  /\ run[p].pipe[s] # << >>
  /\ ~Head(run[p].pipe[s]).long
  /\ run' = [run EXCEPT ![p].reader[s] = "write"]
  /\ UNCHANGED << lockVars, envVars, kind, req, pc, loc, ctxErr, resp, outcome, trace >>
  /\ UNCHANGED cosVars

\* the outcomes of a Write on w: the line, or, when another writer is inside
\* a Write on w at the same time (a data race on the response's buffer),
\* possibly a torn line
Written(p, me, line) ==
  {line} \cup (IF InWrite(p) \ {me} # {} THEN {Line("torn", line[2], line[3])} ELSE {})

\* merge: w.Write and Flush return
ReaderWrite(p, s) ==
  /\ run[p].reader[s] = "write"
  /\ \E ln \in Written(p, s, Line(s, Head(run[p].pipe[s]).text, Empty)) :
       resp' = [resp EXCEPT ![p] = Write(@, ln)]
  /\ run' = [run EXCEPT ![p].pipe[s] = Tail(@), ![p].reader[s] = "scan"]
  /\ UNCHANGED << lockVars, envVars, kind, req, pc, loc, ctxErr, outcome, trace >>
  /\ UNCHANGED cosVars

\* merge: the next line exceeds the scanner buffer (10 MiB); Scan returns false
\* and merge sends s.Err() on done
ReaderTooLong(p, s) ==
  /\ run[p].reader[s] = "scan"
  /\ run[p].pipe[s] # << >>
  /\ Head(run[p].pipe[s]).long
  /\ run' = [run EXCEPT ![p].pipe[s] = Tail(@),
                        ![p].reader[s] = "done",
                        ![p].done = Append(@, "bufio.Scanner: token too long")]
  /\ UNCHANGED << lockVars, envVars, kind, req, pc, loc, ctxErr, resp, outcome, trace >>
  /\ UNCHANGED cosVars

\* merge: end of stream (every write end of the pipe is closed); sends nil on done
ReaderEOF(p, s) ==
  /\ run[p].reader[s] = "scan"
  /\ run[p].pipe[s] = << >>
  /\ ~Writable(run[p])
  /\ run' = [run EXCEPT ![p].reader[s] = "done", ![p].done = Append(@, "nil")]
  /\ UNCHANGED << lockVars, envVars, kind, req, pc, loc, ctxErr, resp, outcome, trace >>
  /\ UNCHANGED cosVars

\* the number of completions the runner receives from done
Readers == 2

\* the positions of the handler inside runAndStream after cmd.Start
RunPcs == {"join", "warn", "wait"}

\* one iteration of the loop receiving from done: e := <-done, and for a
\* non-nil e the handler enters logf
RunnerRecv(p) ==
  /\ pc[p] = "join"
  /\ run[p].done # << >>
  /\ LET e == Head(run[p].done)
     IN /\ run' = [run EXCEPT ![p].done = Tail(@), ![p].recv = @ + 1,
                              ![p].warn = IF e # "nil" THEN e ELSE ""]
        /\ pc' = [pc EXCEPT ![p] = IF e # "nil" THEN "warn"
                                   ELSE IF run[p].recv + 1 = Readers THEN "wait"
                                   ELSE "join"]
  /\ UNCHANGED << lockVars, envVars, kind, req, loc, ctxErr, resp, outcome, trace >>
  /\ UNCHANGED cosVars

\* logf("[WARN] stream: %v", e) returns and the loop goes on
RunnerWarn(p) ==
  /\ pc[p] = "warn"
  /\ \E ln \in Written(p, "logf", Line("[WARN] stream", << run[p].warn >>, Empty)) :
       resp' = [resp EXCEPT ![p] = Write(@, ln)]
  /\ run' = [run EXCEPT ![p].warn = ""]
  /\ pc' = [pc EXCEPT ![p] = IF run[p].recv = Readers THEN "wait" ELSE "join"]
  /\ UNCHANGED << lockVars, envVars, kind, req, loc, ctxErr, outcome, trace >>
  /\ UNCHANGED cosVars

\* the error cmd.Wait returns: the exit state first, else the context's error
\* when the context ended before the process was waited for
WaitErr(shell, sctx) ==
  IF shell = "exitN" THEN "exit status 1"
  ELSE IF shell = "killed" THEN "signal: killed"
  ELSE IF sctx = "deadline" THEN "context deadline exceeded"
  ELSE IF sctx = "canceled" THEN "context canceled"
  ELSE "nil"

\* the result of runAndStream for the error of cmd.Wait
WaitResult(err) ==
  IF err = "nil" THEN "nil"
  ELSE IF err = "context deadline exceeded" THEN "command timeout"
  ELSE err

\* cmd.Wait, the result of runAndStream and the handler's branch on it
RunnerWait(p) ==
  /\ pc[p] = "wait"
  /\ run[p].shell # "running"
  /\ LET res == WaitResult(WaitErr(run[p].shell, run[p].sctx))
     IN IF res # "nil"
        THEN /\ StageFailed(p, resp[p], res)
             /\ UNCHANGED loc
        ELSE IF loc[p].stage = 1
        THEN /\ loc' = [loc EXCEPT ![p].stage = 2]
             /\ pc' = [pc EXCEPT ![p] = "run"]
             /\ UNCHANGED << resp, outcome >>
        ELSE /\ Return(p, logf(resp[p], "[INFO] initialize host done", Empty, Empty),
                       "done", 200)
             /\ UNCHANGED loc
  /\ run' = [run EXCEPT ![p].shell = "reaped", ![p].sctx = "", ![p].recv = 0,
                        ![p].failed = FALSE]
  /\ UNCHANGED << lockVars, envVars, kind, req, ctxErr, trace >>
  /\ UNCHANGED cosVars

\* exec's context watcher: the shell is killed when its context ends
Kill(r, e) ==
  IF r.shell = "none" \/ r.sctx # "" THEN r
  ELSE [r EXCEPT !.sctx = e, !.shell = IF @ = "running" THEN "killed" ELSE @]

\* the request context ends: the overall timeout fires or the client goes away
CtxDone(p, e) ==
  /\ ~Idle(p)
  /\ ctxErr[p] = ""
  /\ e = "deadline" => (kind[p] = "register" /\ cfg.OverallTimeout > 0)
  /\ faultsLeft > 0
  /\ faultsLeft' = faultsLeft - 1
  /\ ctxErr' = [ctxErr EXCEPT ![p] = e]
  /\ run' = [run EXCEPT ![p] = IF pc[p] \in RunPcs THEN Kill(@, e) ELSE @]
  /\ UNCHANGED << lockVars, reqsLeft, linesLeft, kind, req, pc, loc, resp, outcome, trace >>
  /\ UNCHANGED cosVars

\* the timeout of the stage's context fires
StageExpire(p) ==
  /\ pc[p] \in RunPcs
  /\ StageTimeout(loc[p].stage) > 0
  /\ run[p].sctx = ""
  /\ faultsLeft > 0
  /\ faultsLeft' = faultsLeft - 1
  /\ run' = [run EXCEPT ![p] = Kill(@, "deadline")]
  /\ UNCHANGED << lockVars, reqsLeft, linesLeft, kind, req, pc, loc, ctxErr, resp,
                  outcome, trace >>
  /\ UNCHANGED cosVars

\* ------------------------------------------------------------ specifications
HostGroupYml == HostGroup(Host1) \o DotYml

PlaybookFiles == {DefaultYml, HostGroupYml}

Config(ov, ht, pt) == [OverallTimeout |-> ov, HostnameTimeout |-> ht, PlaybookTimeout |-> pt]

\* no overall timeout, the default stage timeouts
CfgDefault == Config(0, 0, 0)

\* an overall timeout, the default stage timeouts
CfgOverall == Config(1, 0, 0)

\* negative stage timeouts: the stages run without a deadline
CfgNoStage == Config(0, -1, -1)

\* the restore-cos-files program is not running
NoChan == [buf |-> << >>, closes |-> 0]

NoScanner == [pc |-> "none", left |-> 0, sent |-> 0]

InitConns ==
  /\ kind = [p \in Procs |-> "none"]
  /\ req = [p \in Procs |-> NoReq]
  /\ pc = [p \in Procs |-> "idle"]
  /\ loc = [p \in Procs |-> NoLoc]
  /\ ctxErr = [p \in Procs |-> ""]
  /\ resp = [p \in Procs |-> NoResp]
  /\ outcome = [p \in Procs |-> Outcome("none", 0)]
  /\ trace = [p \in Procs |-> {}]
  /\ run = [p \in Procs |-> NoRun]

InitProcs ==
  /\ InitConns
  /\ fileChan = NoChan
  /\ scanner = NoScanner
  /\ workers = << >>
  /\ handled = << >>
  /\ mainPc = "none"

\* two concurrent connections, each request running the whole pipeline with
\* silent subprocesses
Init ==
  /\ lock = [k \in {} |-> Empty]
  /\ playbooks = PlaybookFiles
  /\ inventory = [n \in {} |-> Empty]
  /\ cfg = CfgDefault
  /\ rev = 1
  /\ reqsLeft = PipeReqs
  /\ faultsLeft = MaxFaults
  /\ linesLeft = 0
  /\ InitProcs

Next ==
  \/ \E p \in Procs, in \in RegInputs : RegStart(p, in)
  \/ \E p \in Procs : RegHSetNX(p)
  \/ \E p \in Procs : RegHGet(p)
  \/ \E p \in Procs : RegSelect(p)
  \/ \E p \in Procs : RegInventory(p)
  \/ \E p \in Procs, in \in UnregInputs : UnregStart(p, in)
  \/ \E p \in Procs : UnregHGet(p)
  \/ \E p \in Procs : UnregDel(p)
  \/ \E p \in Procs : RunStart(p)
  \/ \E p \in Procs : ChildExit(p)
  \/ \E p \in Procs, st \in {"exit0", "exitN"} : ShellExit(p, st)
  \/ \E p \in Procs, s \in Streams : ReaderEOF(p, s)
  \/ \E p \in Procs : RunnerRecv(p)
  \/ \E p \in Procs : RunnerWait(p)
  \/ \E p \in Procs : CtxDone(p, "canceled")
  \/ \E p \in Procs : StageExpire(p)

Spec == Init /\ [][Next]_vars

\* the lock protocol alone: more requests, and a playbook root without
\* playbooks, so that every register request ends at the playbook selection
InitLock ==
  /\ lock = [k \in {} |-> Empty]
  /\ playbooks = {}
  /\ inventory = [n \in {} |-> Empty]
  /\ cfg = CfgDefault
  /\ rev = 1
  /\ reqsLeft = MaxReqs
  /\ faultsLeft = MaxFaults
  /\ linesLeft = 0
  /\ InitProcs

NextLock ==
  \/ \E p \in Procs, in \in RegInputs : RegStart(p, in)
  \/ \E p \in Procs : RegHSetNX(p)
  \/ \E p \in Procs : RegHGet(p)
  \/ \E p \in Procs : RegSelect(p)
  \/ \E p \in Procs, in \in UnregInputs : UnregStart(p, in)
  \/ \E p \in Procs : UnregHGet(p)
  \/ \E p \in Procs : UnregDel(p)
  \/ \E p \in Procs : CtxDone(p, "canceled")

SpecLock == InitLock /\ [][NextLock]_vars

\* the playbook selection of each revision over every content of the
\* playbook root
HostGroupYaml == HostGroup(Host1) \o DotYaml

DefaultYaml == Default \o DotYaml

OtherYml == << "o" >> \o DotYml

SelectFiles == {DefaultYml, DefaultYaml, HostGroupYml, HostGroupYaml, OtherYml}

InitSelect ==
  /\ lock = [k \in {} |-> Empty]
  /\ playbooks \in SUBSET SelectFiles
  /\ inventory = [n \in {} |-> Empty]
  /\ cfg = CfgDefault
  /\ rev \in Revs
  /\ reqsLeft = 1
  /\ faultsLeft = 0
  /\ linesLeft = 0
  /\ InitProcs

NextSelect ==
  \/ \E in \in RegInputs : RegStart(1, in)
  \/ RegHSetNX(1)
  \/ RegSelect(1)

SpecSelect == InitSelect /\ [][NextSelect]_vars

\* register requests over well-formed and malformed field values
ValidIds ==
  { Empty, IdA, IdOne, IdPad,
    << "a", "-", "-", "b" >>, << "-", "a" >>, << "a", "-" >>,
    << "a", "-", "b", "-", "C", "9" >>, << "a", ".", "b" >> }

ValidHosts ==
  { Empty, Host1,
    << "w", "e", "b", "-", "0", "0", "1" >>,
    << "w", "-", "x", "-", "0", "1" >>,
    << "w", "-", "x", "-", "0", "0", "0", "1" >>,
    << "w", "-", "x", "-", "0", "0", "a" >>,
    << "w", "-", "x" >>,
    << "0", "0", "1" >>,
    << "w", "-", "-", "0", "0", "1" >>,
    << "w", "-", "x", "-", "y", "-", "1", "2", "3" >> }

ValidIps ==
  { Empty, Ip1,
    << "2", "5", "6", ".", "1", ".", "1", ".", "1" >>,
    << "1", ".", "1", ".", "1" >>,
    << "1", ".", "1", ".", "1", ".", "a" >>,
    << "1", ".", "1", ".", "1", ".", "1", ".", "1" >>,
    << "0", "1", ".", "1", ".", "1", ".", "1" >>,
    << "0", "0", "1", ".", "1", ".", "1", ".", "1" >>,
    << "2", "5", "5", ".", "1", "9", "9", ".", "0", ".", "9", "9" >>,
    << "1", ".", "1", ".", "1", ".", "2", "6", "0" >> }

ValidInputs ==
  { HttpReq("POST", TRUE, InitReq(id, h, ip)) :
      id \in ValidIds, h \in ValidHosts, ip \in ValidIps }
    \cup { HttpReq("GET", TRUE, InitReq(IdA, Host1, Ip1)),
           HttpReq("POST", FALSE, InitReq(Empty, Empty, Empty)) }

InitValid ==
  /\ lock = [k \in {} |-> Empty]
  /\ playbooks = PlaybookFiles
  /\ inventory = [n \in {} |-> Empty]
  /\ cfg = CfgDefault
  /\ rev = 1
  /\ reqsLeft = 1
  /\ faultsLeft = 0
  /\ linesLeft = 0
  /\ InitProcs

NextValid ==
  \/ \E in \in ValidInputs : RegStart(1, in)
  \/ RegHSetNX(1)
  \/ RegSelect(1)
  \/ RegInventory(1)

SpecValid == InitValid /\ [][NextValid]_vars

\* requests for two hostnames, served one after the other
Host2 == << "y", "-", "z", "-", "0", "0", "2" >>

FrameRegs ==
  { HttpReq("POST", TRUE, InitReq(IdA, Host1, Ip1)),
    HttpReq("POST", TRUE, InitReq(IdB, Host2, Ip1)) }

FrameUnregs ==
  { HttpReq("POST", TRUE, InitReq(Empty, Host1, Empty)),
    HttpReq("POST", TRUE, InitReq(Empty, Host2, Empty)),
    HttpReq("POST", TRUE, InitReq(IdA, Host1, Ip1)),
    HttpReq("POST", TRUE, InitReq(IdB, Host1, Ip1)) }

InitFrame ==
  /\ lock = [k \in {} |-> Empty]
  /\ playbooks = PlaybookFiles
  /\ inventory = [n \in {} |-> Empty]
  /\ cfg = CfgDefault
  /\ rev = 1
  /\ reqsLeft = MaxReqs
  /\ faultsLeft = MaxFaults
  /\ linesLeft = 0
  /\ InitProcs

NextFrame ==
  \/ \E in \in FrameRegs : RegStart(1, in)
  \/ RegHSetNX(1)
  \/ RegHGet(1)
  \/ RegSelect(1)
  \/ RegInventory(1)
  \/ RunStart(1)
  \/ ChildExit(1)
  \/ \E st \in {"exit0", "exitN"} : ShellExit(1, st)
  \/ \E s \in Streams : ReaderEOF(1, s)
  \/ RunnerRecv(1)
  \/ RunnerWait(1)
  \/ \E in \in FrameUnregs : UnregStart(1, in)
  \/ UnregHGet(1)
  \/ UnregDel(1)

SpecFrame == InitFrame /\ [][NextFrame]_vars

\* one register request at a time with subprocesses that write output
RunInput == HttpReq("POST", TRUE, InitReq(IdA, Host1, Ip1))

InitRun ==
  /\ lock = [k \in {} |-> Empty]
  /\ playbooks \in SUBSET PlaybookFiles
  /\ inventory = [n \in {} |-> Empty]
  /\ cfg \in {CfgDefault, CfgOverall, CfgNoStage}
  /\ rev = 1
  /\ reqsLeft = 1
  /\ faultsLeft = MaxFaults
  /\ linesLeft = MaxLines
  /\ InitProcs

NextRun ==
  \/ RegStart(1, RunInput)
  \/ RegHSetNX(1)
  \/ RegSelect(1)
  \/ RegInventory(1)
  \/ RunStart(1)
  \/ \E s \in Streams, long \in BOOLEAN : ProcEmit(1, s, long)
  \/ ChildExit(1)
  \/ ChildFail(1)
  \/ \E st \in {"exit0", "exitN"} : ShellExit(1, st)
  \/ \E s \in Streams : ReaderLine(1, s)
  \/ \E s \in Streams : ReaderWrite(1, s)
  \/ \E s \in Streams : ReaderTooLong(1, s)
  \/ \E s \in Streams : ReaderEOF(1, s)
  \/ RunnerRecv(1)
  \/ RunnerWarn(1)
  \/ RunnerWait(1)
  \/ \E e \in {"deadline", "canceled"} : CtxDone(1, e)
  \/ StageExpire(1)

SpecRun == InitRun /\ [][NextRun]_vars

\* one register request on connection 1 whose client stays connected, with
\* and without stage deadlines; the subprocesses are silent
InitLive ==
  /\ lock = [k \in {} |-> Empty]
  /\ playbooks \in SUBSET PlaybookFiles
  /\ inventory = [n \in {} |-> Empty]
  /\ cfg \in {CfgDefault, CfgNoStage}
  /\ rev = 1
  /\ reqsLeft = 1
  /\ faultsLeft = MaxFaults
  /\ linesLeft = 0
  /\ InitProcs

NextLive ==
  \/ \E in \in RegInputs : RegStart(1, in)
  \/ RegHSetNX(1)
  \/ RegSelect(1)
  \/ RegInventory(1)
  \/ RunStart(1)
  \/ ChildExit(1)
  \/ ChildFail(1)
  \/ \E st \in {"exit0", "exitN"} : ShellExit(1, st)
  \/ \E s \in Streams : ReaderEOF(1, s)
  \/ RunnerRecv(1)
  \/ RunnerWait(1)
  \/ StageExpire(1)

\* the scheduling the program relies on: the handler goroutine and the two
\* reader goroutines take their next step when they can (the Go scheduler
\* starves no runnable goroutine), the shell exits once the commands it
\* waits for have ended, and the timer of the stage's context fires while
\* the stage is still running. A command started by the shell is not
\* assumed to exit.
FairLive ==
  /\ WF_vars(RegHSetNX(1))
  /\ WF_vars(RegSelect(1))
  /\ WF_vars(RegInventory(1))
  /\ WF_vars(RunStart(1))
  /\ \A s \in Streams : WF_vars(ReaderEOF(1, s))
  /\ WF_vars(RunnerRecv(1))
  /\ WF_vars(RunnerWait(1))
  /\ WF_vars(\E st \in {"exit0", "exitN"} : ShellExit(1, st))
  /\ WF_vars(StageExpire(1))

SpecLive == InitLive /\ [][NextLive]_vars /\ FairLive

\* --------------------------------------------------------- restore-cos-files
\* the variables of the gateway, which restore-cos-files leaves alone
gatewayVars == << lockVars, envVars, procVars >>

\* scanAndSendObjects: out <- content.Key for the next matching object; the
\* send blocks while the buffer is full
ScanSend ==
  /\ scanner.pc = "scan"
  /\ scanner.left > 0
  /\ Len(fileChan.buf) < ChanCap
  /\ LET key == scanner.sent + 1
     IN /\ fileChan' = [fileChan EXCEPT !.buf = Append(@, key)]
        /\ handled' = [k \in DOMAIN handled \cup {key} |->
                         IF k = key THEN 0 ELSE handled[k]]
  /\ scanner' = [scanner EXCEPT !.left = @ - 1, !.sent = @ + 1]
  /\ UNCHANGED << workers, mainPc, gatewayVars >>

\* scanAndSendObjects: client.Bucket.Get fails; the error is logged and the
\* listing of the prefix is given up
ScanFail ==
  /\ scanner.pc = "scan"
  /\ scanner.left > 0
  /\ scanner' = [scanner EXCEPT !.left = 0]
  /\ UNCHANGED << fileChan, workers, handled, mainPc, gatewayVars >>

\* the producer goroutine after the loop over cfg.Prefix: close(fileChan)
\* and the deferred wg.Done()
ScanClose ==
  /\ scanner.pc = "scan"
  /\ scanner.left = 0
  /\ fileChan' = [fileChan EXCEPT !.closes = @ + 1]
  /\ scanner' = [scanner EXCEPT !.pc = "done"]
  /\ UNCHANGED << workers, handled, mainPc, gatewayVars >>

\* consumer id: for key := range fileChan receives the next key
WorkerRecv(id) ==
  /\ id \in DOMAIN workers
  /\ workers[id].pc = "recv"
  /\ fileChan.buf # << >>
  /\ workers' = [workers EXCEPT ![id] = [pc |-> "restore", key |-> Head(fileChan.buf)]]
  /\ fileChan' = [fileChan EXCEPT !.buf = Tail(@)]
  /\ UNCHANGED << scanner, handled, mainPc, gatewayVars >>

\* consumer id: restoreObject(client, key, ...) returns (restored, failed and
\* logged, or printed in dry-run mode)
WorkerRestore(id) ==
  /\ id \in DOMAIN workers
  /\ workers[id].pc = "restore"
  /\ handled' = [handled EXCEPT ![workers[id].key] = @ + 1]
  /\ workers' = [workers EXCEPT ![id] = [pc |-> "recv", key |-> 0]]
  /\ UNCHANGED << fileChan, scanner, mainPc, gatewayVars >>

\* consumer id: the range loop ends on the closed and drained channel; the
\* deferred wg.Done()
WorkerExit(id) ==
  /\ id \in DOMAIN workers
  /\ workers[id].pc = "recv"
  /\ fileChan.buf = << >>
  /\ fileChan.closes > 0
  /\ workers' = [workers EXCEPT ![id].pc = "done"]
  /\ UNCHANGED << fileChan, scanner, handled, mainPc, gatewayVars >>

\* main: wg.Wait() returns when the producer and every consumer called
\* wg.Done(), and the completion line is logged
MainReport ==
  /\ mainPc = "wait"
  /\ scanner.pc = "done"
  /\ \A id \in DOMAIN workers : workers[id].pc = "done"
  /\ mainPc' = "reported"
  /\ UNCHANGED << fileChan, scanner, workers, handled, gatewayVars >>

\* main has started the producer and cfg.Workers consumers and is in
\* wg.Wait(); cfg.Workers is whatever the YAML file gives (0 when the key is
\* absent); the gateway is not running
InitCos ==
  /\ lock = [k \in {} |-> Empty]
  /\ playbooks = {}
  /\ inventory = [n \in {} |-> Empty]
  /\ cfg = CfgDefault
  /\ rev = 1
  /\ reqsLeft = 0
  /\ faultsLeft = 0
  /\ linesLeft = 0
  /\ InitConns
  /\ fileChan = NoChan
  /\ \E n \in 0..MaxObjects : scanner = [pc |-> "scan", left |-> n, sent |-> 0]
  /\ \E w \in 0..MaxWorkers : workers = [id \in 1..w |-> [pc |-> "recv", key |-> 0]]
  /\ handled = << >>
  /\ mainPc = "wait"

NextCos ==
  \/ ScanSend
  \/ ScanFail
  \/ ScanClose
  \/ \E id \in 1..MaxWorkers : WorkerRecv(id)
  \/ \E id \in 1..MaxWorkers : WorkerRestore(id)
  \/ \E id \in 1..MaxWorkers : WorkerExit(id)
  \/ MainReport

\* the Go scheduler starves no runnable goroutine: the producer, each
\* consumer and main take their next step when they can, and a call of
\* restoreObject returns. A failing listing is not assumed.
FairCos ==
  /\ WF_vars(ScanSend)
  /\ WF_vars(ScanClose)
  /\ \A id \in 1..MaxWorkers :
       WF_vars(WorkerRecv(id)) /\ WF_vars(WorkerRestore(id)) /\ WF_vars(WorkerExit(id))
  /\ WF_vars(MainReport)

SpecCos == InitCos /\ [][NextCos]_vars /\ FairCos

\* ------------------------------------------------------------------- claims
\* p has received the answer of its set-if-absent call
Answered(p) ==
  kind[p] = "register" /\ "HSetNX" \in trace[p] /\ "storeFail" \notin trace[p]

Acquired(p) == Answered(p) /\ loc[p].okSet

AlreadyHeld(p) == Answered(p) /\ ~loc[p].okSet

\* the two connections carry the only two requests sent so far: two register
\* requests for one hostname with different owner tokens, on the empty store
TwoRegisters ==
  /\ reqsLeft = PipeReqs - 2
  /\ \A p \in Procs : kind[p] = "register" /\ validate(req[p]) = ""
  /\ req[1].Hostname = req[2].Hostname
  /\ OwnerToken(req[1]) # OwnerToken(req[2])

\* C1: of two concurrent register requests for one hostname with different
\* owner tokens on an empty store, never both get Acquired from the
\* set-if-absent call, and once both calls are answered exactly one got
\* Acquired and the other AlreadyHeld
C1_ExactlyOneAcquired ==
  TwoRegisters =>
    /\ ~(Acquired(1) /\ Acquired(2))
    /\ (Answered(1) /\ Answered(2)) =>
         \/ Acquired(1) /\ AlreadyHeld(2)
         \/ Acquired(2) /\ AlreadyHeld(1)

\* both calls answered while the winner is still being served
C1_Witness ==
  /\ TwoRegisters
  /\ \E p, q \in Procs :
       /\ Acquired(p) /\ pc[p] = "select"
       /\ AlreadyHeld(q) /\ pc[q] = "hget"

Guarded(p) == kind[p] = "unregister" /\ (req[p].ID # Empty \/ req[p].IP # Empty)

Key(p) == LockKey(req[p].Hostname)

\* the step in which connection p leaves position at
Leaves(p, at) == pc[p] = at /\ pc'[p] # at

\* C2: a guarded unregister deletes the lock key only if the value stored at
\* the moment of the deletion equals the owner token it supplied (here the
\* token as the handler trims it)
C2_DeleteOnlyOwn ==
  [][\A p \in Procs :
       (Leaves(p, "udel") /\ Guarded(p) /\ Key(p) \in DOMAIN lock /\ lock' # lock)
         => lock[Key(p)] = IncomingToken(req[p])]_vars

LastLine(p) == resp[p].body[Len(resp[p].body)]

Conflict(p) == kind[p] = "register" /\ outcome[p].kind = "conflict"

\* C3: a register request for a hostname whose lock is held by a different
\* owner token is answered with status 409 and its response names the stored
\* and the incoming owner token
C3_ConflictIs409 ==
  \A p \in Procs :
    (Conflict(p) /\ "storeFail" \notin trace[p] /\ loc[p].stored # Empty) =>
      /\ resp[p].status = 409
      /\ LastLine(p) = Line("[CONFLICT]", loc[p].stored, OwnerToken(req[p]))

FailKinds == {"storeerr", "conflict", "norecipe", "ioerr", "stagefail", "timeout"}

Failed(p) == kind[p] = "register" /\ pc[p] = "done" /\ outcome[p].kind \in FailKinds

FailTags == {"redis error", "[CONFLICT]", "playbook select error", "mkdir log_dir",
             "write inventory", "hostname step failed", "playbook step failed"}

\* C4: every register request that ends in Failed has a non-2xx status and
\* its failure as the last line of the body
C4_FailedIsNon2xx ==
  \A p \in Procs :
    Failed(p) =>
      /\ ~(resp[p].status \in 200..299)
      /\ LastLine(p)[1] \in FailTags

\* C5: a request one of whose store calls failed is reported as a server
\* error, never as a conflict, a mismatch or a successful deletion
C5_StoreFailureIs5xx ==
  \A p \in Procs :
    (pc[p] = "done" /\ "storeFail" \in trace[p]) =>
      /\ outcome[p].code \in 500..599
      /\ outcome[p].kind \notin {"conflict", "mismatch", "deleted"}

\* C6: a register request that reads the stored owner while the lock holds
\* its own owner token never ends in a conflict: it writes the idempotent
\* warning, leaves the lock record unchanged and goes on to the playbook
\* selection
C6_RetryNeverConflicts ==
  [][\A p \in Procs :
       (Leaves(p, "hget") /\ Key(p) \in DOMAIN lock /\ lock[Key(p)] = OwnerToken(req[p]))
         => /\ outcome'[p].kind # "conflict"
            /\ pc'[p] = "select"
            /\ lock' = lock
            /\ resp'[p].body[Len(resp'[p].body)][1] = "[WARN] already registered (idempotent)"]_vars

SideEffects == {"lockWritten", "lockDeleted", "WriteFile", "stage1", "stage2"}

\* C7: a register request that ended in a conflict has not changed the lock
\* record, has written no inventory file and has started no stage
C7_ConflictNoSideEffects ==
  \A p \in Procs :
    Conflict(p) => trace[p] \cap SideEffects = {}

\* a conflict against a lock that is still held by the other owner
C7_Witness ==
  \E p \in Procs :
    /\ Conflict(p)
    /\ loc[p].stored # Empty
    /\ Key(p) \in DOMAIN lock
    /\ lock[Key(p)] = loc[p].stored

\* C8: a guarded unregister whose identity + "__" + address differs from the
\* stored owner token is answered with 412 and leaves the lock unchanged
C8_MismatchIs412 ==
  [][\A p \in Procs :
       (Leaves(p, "uhget") /\ Guarded(p) /\ Key(p) \in DOMAIN lock
          /\ lock[Key(p)] # OwnerToken(req[p]))
         => /\ outcome'[p] = Outcome("mismatch", 412)
            /\ resp'[p].status = 412
            /\ lock' = lock]_vars

\* C9: a stage whose command was killed at the expiry of its deadline fails
\* with the timeout-specific error "command timeout"
C9_KilledIsTimeout ==
  [][\A p \in Procs :
       (Leaves(p, "wait") /\ run[p].shell = "killed" /\ run[p].sctx = "deadline")
         => /\ outcome'[p].kind = "timeout"
            /\ resp'[p].body[Len(resp'[p].body)][2] = << "command timeout" >>]_vars

RECURSIVE Texts(_)
Texts(lines) == IF lines = << >> THEN << >> ELSE << Head(lines).text >> \o Texts(Tail(lines))

RECURSIVE Tagged(_, _)
\* the texts of the body lines with the given tag
Tagged(body, tag) ==
  IF body = << >> THEN << >>
  ELSE (IF Head(body)[1] = tag THEN << Head(body)[2] >> ELSE << >>) \o Tagged(Tail(body), tag)

\* the lines of stream s written to the response since the stage started
Delivered(p, s) == Tagged(SubSeq(resp[p].body, run[p].base + 1, Len(resp[p].body)), s)

\* runAndStream has returned from cmd.Wait
Returned(p) == run[p].shell = "reaped"

\* C10: when runAndStream has returned, every line the subprocess produced on
\* stdout and stderr has been written to the response, and no reader is left
\* to write a line after the result
C10_AllLinesDelivered ==
  \A p \in Procs :
    Returned(p) =>
      \A s \in Streams :
        /\ run[p].reader[s] = "done"
        /\ Delivered(p, s) = Texts(run[p].produced[s])

\* C11: writes to the response are serialized: never two of the writers (the
\* stdout reader, the stderr reader, the handler's logf) are inside a write
\* at the same time
C11_WritesSerialized ==
  \A p \in Procs : Cardinality(InWrite(p)) <= 1

\* C12: once the context of a running stage has ended (client gone or a
\* deadline expired) neither the shell nor a command it started is running,
\* and none is running when the register request has returned
C12_CancelTerminatesAll ==
  \A p \in Procs :
    /\ run[p].sctx # "" => ~Writable(run[p])
    /\ (kind[p] = "register" /\ pc[p] = "done") => ~Writable(run[p])

\* the body lines written by the step
NewLines(p) == SubSeq(resp'[p].body, Len(resp[p].body) + 1, Len(resp'[p].body))

\* C13: selectPlaybook is a total function of (default.yml exists,
\* hostgroup.yml exists): only default -> default, a warning, no error; only
\* hostgroup -> hostgroup, no warning, no error; both -> hostgroup, a warning,
\* no error; neither -> an error and no path. Other files do not matter and
\* the selection changes neither the store nor the files
C13_SelectIsTotal ==
  [][\A p \in Procs :
       (Leaves(p, "select") /\ rev = 1) =>
         LET hgroup == HostGroup(req[p].Hostname)
             hg == hgroup \o DotYml
             d == DefaultYml \in playbooks
             g == hg \in playbooks
             r == selectPlaybook(playbooks, hgroup)
         IN /\ (d /\ ~g) => (r.playbook = DefaultYml /\ r.warn # "" /\ ~r.err)
            /\ (~d /\ g) => (r.playbook = hg /\ r.warn = "" /\ ~r.err)
            /\ (d /\ g) => (r.playbook = hg /\ r.warn # "" /\ ~r.err)
            /\ (~d /\ ~g) => (r.playbook = Empty /\ r.err)
            /\ r = selectPlaybook(playbooks \cap {DefaultYml, hg}, hgroup)
            /\ r.err <=> outcome'[p].kind = "norecipe"
            /\ ~r.err => loc'[p].playbook = r.playbook
            /\ (r.warn # "") <=> (Tagged(NewLines(p), "[WARN]") # << >>)
            /\ lockVars' = lockVars]_vars

\* the first revision has selected among default.yml and the hostgroup's .yml
\* in a root that holds both and other files
C13_Witness ==
  \E p \in Procs :
    /\ rev = 1
    /\ pc[p] = "inventory"
    /\ PlaybookFiles \subseteq playbooks
    /\ playbooks # PlaybookFiles
    /\ loc[p].playbook = HostGroupYml

\* the suffixes a revision accepts
Accepted(r) == IF r = 1 THEN {DotYml} ELSE {DotYml, DotYaml}

\* the files of base that exist under the root in an accepted suffix
Variants(r, base) == {base \o sfx : sfx \in Accepted(r)} \cap playbooks

Selected(p) == kind[p] = "register" /\ "selectPlaybook" \in trace[p]

\* C14: in every revision, when a hostgroup playbook exists in an accepted
\* suffix (.yml, .yaml or both) the selection returns a hostgroup playbook,
\* never the default playbook and never an error
C14_GroupWins ==
  \A p \in Procs :
    (Selected(p) /\ Variants(rev, HostGroup(req[p].Hostname)) # {}) =>
      /\ outcome[p].kind # "norecipe"
      /\ loc[p].playbook \in Variants(rev, HostGroup(req[p].Hostname))

\* C15: in the revisions that accept .yml and .yaml, a playbook selected
\* while both of its suffix variants exist is accompanied by a warning
C15_NoSilentSuffixPick ==
  \A p \in Procs :
    (Selected(p) /\ rev # 1 /\ outcome[p].kind # "norecipe") =>
      \A base \in {Default, HostGroup(req[p].Hostname)} :
        (loc[p].playbook \in Variants(rev, base) /\ Cardinality(Variants(rev, base)) = 2)
          => Tagged(resp[p].body, "[WARN]") # << >>

\* the handler decoded the body of the register request of p
Decoded(p) == kind[p] = "register" /\ outcome[p].kind \notin {"none", "method", "badjson"}

Rules == {"missing", "invalid id", "invalid hostname", "invalid ip"}

\* C16: a register request that violates a validation rule is answered with
\* status 400 and the name of the violated rule; it makes no store call,
\* writes no inventory file and starts no subprocess
C16_InvalidIs400 ==
  [][\A p \in Procs :
       (Decoded(p)' /\ validate(req'[p]) # "") =>
         /\ pc'[p] = "done"
         /\ outcome'[p] = Outcome("invalid", 400)
         /\ resp'[p].status = 400
         /\ Len(resp'[p].body) = 1
         /\ resp'[p].body[1][1] = validate(req'[p])
         /\ resp'[p].body[1][1] \in Rules
         /\ trace'[p] = {}
         /\ run'[p] = NoRun
         /\ lock' = lock
         /\ inventory' = inventory]_vars

\* a request with a malformed hostname has been answered
C16_Witness ==
  \E p \in Procs :
    /\ Decoded(p)
    /\ pc[p] = "done"
    /\ validate(req[p]) = "invalid hostname"
    /\ resp[p].status = 400

\* one or more non-empty alphanumeric segments joined by single hyphens
Token(s) == \A i \in 1..Len(Split(s, "-")) : IsSegment(Split(s, "-")[i])

\* such a string that ends in a hyphen followed by exactly three digits
TokenDigits(s) ==
  LET parts == Split(s, "-")
  IN /\ Token(s)
     /\ Len(parts) >= 2
     /\ Len(parts[Len(parts)]) = 3
     /\ AllIn(parts[Len(parts)], Digit)

\* C17: validate accepts an identity iff it is one or more alphanumeric
\* segments joined by single hyphens, and a hostname iff it is such a string
\* ending in a hyphen and exactly three digits (the other fields being valid)
C17_TokenGrammar ==
  \A p \in Procs :
    (Decoded(p) /\ req[p].ID # Empty /\ req[p].Hostname # Empty /\ ipRe(req[p].IP)) =>
      /\ (Token(req[p].ID) /\ TokenDigits(req[p].Hostname)) <=> validate(req[p]) = ""
      /\ validate(req[p]) = "" <=> outcome[p].kind # "invalid"

\* the stage of the request served on connection p: 1 Locking, 2
\* SelectingRecipe, 3 WritingArtifact, 4 RenamingHost, 5 ApplyingRecipe, and
\* 0 before the request and after it (Validating is the start itself)
StageNo(p) ==
  IF pc[p] \in {"hsetnx", "hget"} THEN 1
  ELSE IF pc[p] = "select" THEN 2
  ELSE IF pc[p] = "inventory" THEN 3
  ELSE IF pc[p] \in {"run"} \cup RunPcs THEN 3 + loc[p].stage
  ELSE 0

\* the step ends the request of p
Finishes(p) == pc[p] # "done" /\ pc'[p] = "done"

\* C18: a register request goes through Locking, SelectingRecipe,
\* WritingArtifact, RenamingHost, ApplyingRecipe in this order without
\* skipping one; it ends as Done only from ApplyingRecipe, else as Failed, and
\* does nothing after it has ended; it fails only for a cause (an error of the
\* store, the file system or the start, a lock held by another, no playbook,
\* a command that did not exit zero, an ended context); and when it is Done
\* it has acquired the lock (alone on the empty store), written the inventory,
\* run the rename and then the apply stage once each and written the final
\* success line
C18_StageOrder ==
  [][\A p \in Procs :
       kind'[p] = "register" =>
         /\ StageNo(p)' \in {StageNo(p), StageNo(p) + 1} \/ Finishes(p)
         /\ Finishes(p) =>
              /\ outcome'[p].kind \in FailKinds \cup {"done", "invalid", "method", "badjson"}
              /\ outcome'[p].kind \in {"invalid", "method", "badjson"} <=> StageNo(p) = 0
              /\ outcome'[p].kind = "done" => StageNo(p) = 5
              /\ outcome'[p].kind \in FailKinds =>
                   \/ faultsLeft' < faultsLeft
                   \/ ctxErr[p] # ""
                   \/ outcome'[p].kind = "conflict" /\ HGet(lock, Key(p)) # OwnerToken(req[p])
                   \/ outcome'[p].kind = "norecipe"
                         /\ Select(rev, playbooks, HostGroup(req[p].Hostname)).err
                   \/ pc[p] = "wait" /\ (run[p].shell # "exit0" \/ run[p].sctx # "")
              /\ outcome'[p].kind = "done" =>
                   /\ {"HSetNX", "selectPlaybook", "WriteFile", "stage1", "stage2"}
                        \subseteq trace'[p]
                   /\ InvBase(req[p]) \in DOMAIN inventory
                   /\ inventory[InvBase(req[p])] = InvContent(req[p])
                   /\ Tagged(resp'[p].body, "[INFO] run") = << StageCmd(1), StageCmd(2) >>
                   /\ resp'[p].status = 200
                   /\ resp'[p].body[Len(resp'[p].body)][1] = "[INFO] initialize host done"
                   /\ reqsLeft = PipeReqs - 1 =>
                        (loc[p].okSet /\ HGet(lock, Key(p)) = OwnerToken(req[p]))
         /\ (pc[p] = "done" /\ reqsLeft' = reqsLeft) =>
              (trace'[p] = trace[p] /\ resp'[p] = resp[p] /\ run'[p].shell = run[p].shell)]_vars

\* the only request sent so far has ended as Done
C18_Witness ==
  \E p \in Procs :
    /\ reqsLeft = PipeReqs - 1
    /\ kind[p] = "register"
    /\ pc[p] = "done"
    /\ outcome[p].kind = "done"
    /\ loc[p].okSet

\* a register request that is past Locking and has not ended
PostLocking(p) == kind[p] = "register" /\ StageNo(p) \in 2..5

\* C19: two register requests for one hostname with different owner tokens
\* are never both in a stage after Locking at the same time, whatever
\* register and unregister requests are interleaved
C19_OneHolderPerHostname ==
  \A p, q \in Procs :
    (p # q /\ PostLocking(p) /\ PostLocking(q) /\ req[p].Hostname = req[q].Hostname)
      => OwnerToken(req[p]) = OwnerToken(req[q])

\* C20: no step rewrites an existing lock record; a record disappears only
\* by the delete of an unregister request for its hostname; a register
\* request changes the store only at its set-if-absent call, and the step in
\* which it fails (at the selection, the inventory, the rename or the apply
\* stage, a timeout included) leaves the store as it is
C20_RegisterKeepsLock ==
  [][/\ \A k \in DOMAIN lock \cap DOMAIN lock' : lock'[k] = lock[k]
     /\ \A k \in DOMAIN lock \ DOMAIN lock' :
          \E p \in Procs : kind[p] = "unregister" /\ Leaves(p, "udel") /\ Key(p) = k
     /\ \A p \in Procs :
          (kind[p] = "register" /\ pc'[p] # pc[p] /\ (pc[p] # "hsetnx" \/ Finishes(p)))
            => lock' = lock]_vars

\* a request that acquired the lock has failed in the apply stage and the
\* lock record still holds its owner token
C20_Witness ==
  \E p \in Procs :
    /\ Failed(p)
    /\ outcome[p].kind = "stagefail"
    /\ loc[p].stage = 2
    /\ loc[p].okSet
    /\ HGet(lock, Key(p)) = OwnerToken(req[p])

C22_UnheldIsNotFound ==
  [][\A p \in Procs :
       (kind[p] = "unregister" /\ pc[p] \in {"uhget", "udel"} /\ Finishes(p)
          /\ Key(p) \notin DOMAIN lock /\ "storeFail" \notin trace'[p])
         => /\ outcome'[p].kind \notin {"deleted", "mismatch"}
            /\ outcome'[p].code \in 400..599]_vars

\* C23: with an overall deadline and a stage deadline both active, a stage
\* does not go on after either of them has expired: neither the shell nor a
\* command it started is running any more
C23_FirstDeadlineCuts ==
  \A p \in Procs :
    (kind[p] = "register" /\ pc[p] \in RunPcs
       /\ cfg.OverallTimeout > 0 /\ StageTimeout(loc[p].stage) > 0
       /\ run[p].sctx = "deadline")
      => ~Writable(run[p])

\* the effects of the steps after the selection
LaterSteps == {"WriteFile", "stage1", "stage2"}

\* C24: after the overall deadline has expired during the selection, the
\* inventory writing or a stage, the register request writes no inventory
\* and starts no stage, and it ends as Failed with a timeout failure
C24_OverallDeadlineAborts ==
  [][\A p \in Procs :
       (kind[p] = "register" /\ StageNo(p) \in 2..5 /\ ctxErr[p] = "deadline") =>
         /\ (trace'[p] \ trace[p]) \cap LaterSteps = {}
         /\ inventory' = inventory
         /\ Finishes(p) => outcome'[p].kind = "timeout"]_vars

\* the step is taken by the handler serving connection p
StepOf(p) ==
  << kind[p], req[p], pc[p], loc[p], resp[p], outcome[p], trace[p] >>'
    # << kind[p], req[p], pc[p], loc[p], resp[p], outcome[p], trace[p] >>

\* C25: a step of an unregister request starts no subprocess and creates or
\* changes no inventory file and no playbook; it changes the store at most by
\* deleting the lock key of the hostname it names, and the lock keys of the
\* other hostnames stay as they are
C25_UnregisterFrame ==
  [][\A p \in Procs :
       (kind'[p] = "unregister" /\ StepOf(p)) =>
         /\ inventory' = inventory
         /\ playbooks' = playbooks
         /\ run'[p] = NoRun
         /\ trace'[p] \cap {"lockWritten", "selectPlaybook", "WriteFile", "stage1", "stage2"} = {}
         /\ lock' # lock => (pc[p] = "udel" /\ lock' = Del(lock, LockKey(req'[p].Hostname)))
         /\ \A k \in DOMAIN lock \ {LockKey(req'[p].Hostname)} :
              k \in DOMAIN lock' /\ lock'[k] = lock[k]]_vars

\* an unregister has deleted the lock of one hostname while the lock of the
\* other hostname is held and inventory files exist
C25_Witness ==
  \E p \in Procs :
    /\ kind[p] = "unregister"
    /\ pc[p] = "done"
    /\ "lockDeleted" \in trace[p]
    /\ req[p].Hostname = Host1
    /\ LockKey(Host2) \in DOMAIN lock
    /\ DOMAIN inventory # {}

\* the tag of the last body line after the step
LastTag(p) == resp'[p].body[Len(resp'[p].body)][1]

\* the step writes at least one line to the response of p
WritesLine(p) == Len(resp'[p].body) > Len(resp[p].body)

\* C26: progress is written as it happens: the lock-status line when the
\* request goes on to the selection, the playbook line when it goes on to the
\* inventory, the inventory line when it goes on to the rename stage, and a
\* completion line when a stage finishes (for the rename stage before the
\* apply stage starts)
C26_ProgressLines ==
  [][\A p \in Procs :
       kind[p] = "register" =>
         /\ (StageNo(p) = 1 /\ StageNo(p)' = 2) =>
              LastTag(p) \in {"[INFO] registered", "[WARN] already registered (idempotent)"}
         /\ (StageNo(p) = 2 /\ StageNo(p)' = 3) => LastTag(p) = "[INFO] use playbook"
         /\ (StageNo(p) = 3 /\ StageNo(p)' = 4) => LastTag(p) = "[INFO] inventory written"
         /\ (Leaves(p, "wait") /\ outcome'[p].kind \in {"running", "done"}) => WritesLine(p)]_vars

\* the hostname without its last four characters, the suffix -NNN
Group(hostname) == SubSeq(hostname, 1, Len(hostname) - 4)

Underscores == << "_", "_" >>

\* C27: for a valid request the group is the hostname without its -NNN
\* suffix, the inventory file is named identity__hostname__address.txt and
\* holds exactly the two lines [group] and address; name and content are
\* determined by (identity, hostname, address) alone
C27_InventoryFormat ==
  [][\A p \in Procs :
       (kind[p] = "register" /\ Leaves(p, "inventory") /\ "WriteFile" \in trace'[p]) =>
         LET r == req[p]
             name == r.ID \o Underscores \o r.Hostname \o Underscores \o r.IP
                       \o << ".", "t", "x", "t" >>
             content == << << "[" >> \o Group(r.Hostname) \o << "]" >>, r.IP >>
         IN /\ validate(r) = ""
            /\ HostGroup(r.Hostname) = Group(r.Hostname)
            /\ DOMAIN inventory' = DOMAIN inventory \cup {name}
            /\ inventory'[name] = content
            /\ \A n \in DOMAIN inventory \ {name} : inventory'[n] = inventory[n]
            /\ resp'[p].body[Len(resp'[p].body)] = Line("[INFO] inventory written", name, Empty)]_vars

\* the inventory of a request with a four-segment hostname has been written
C27_Witness ==
  \E p \in Procs :
    /\ kind[p] = "register"
    /\ "WriteFile" \in trace[p]
    /\ Len(Split(req[p].Hostname, "-")) = 4
    /\ DOMAIN inventory # {}

\* C28: a register request whose hostname command or ansible-playbook
\* command exited non-zero ends as Failed with an execution error when the
\* stage is over, and the final success line is not written
C28_CommandFailureFails ==
  [][\A p \in Procs :
       (kind[p] = "register" /\ Leaves(p, "wait")
          /\ (run[p].failed \/ run[p].shell = "exitN"))
         => /\ pc'[p] = "done"
            /\ outcome'[p].kind \in {"stagefail", "timeout"}
            /\ resp'[p].body[Len(resp'[p].body)][1]
                 \in {"hostname step failed", "playbook step failed"}]_vars

\* C29: the stored owner token a register request decides on after its
\* set-if-absent call found the lock held is the token of a lock record: a
\* conflict is never reported against an empty owner, whatever unregister
\* requests are interleaved (store calls being served)
C29_ConflictNamesHolder ==
  \A p \in Procs :
    (Conflict(p) /\ "storeFail" \notin trace[p]) => loc[p].stored # Empty

\* C30: a guarded unregister (its read being served) goes on to delete the
\* lock iff identity + "__" + address equals the stored owner token
C30_ExactTokenMatch ==
  [][\A p \in Procs :
       (Guarded(p) /\ Leaves(p, "uhget") /\ "storeFail" \notin trace'[p]
          /\ Key(p) \in DOMAIN lock)
         => (pc'[p] = "udel" <=> lock[Key(p)] = OwnerToken(req[p]))]_vars

\* the value of a decimal digit
DigitVal(c) ==
  CASE c = "0" -> 0 [] c = "1" -> 1 [] c = "2" -> 2 [] c = "3" -> 3
    [] c = "4" -> 4 [] c = "5" -> 5 [] c = "6" -> 6 [] c = "7" -> 7
    [] c = "8" -> 8 [] c = "9" -> 9

RECURSIVE Value(_)
\* the numeric value of a string of decimal digits
Value(s) ==
  IF Len(s) = 0 THEN 0
  ELSE 10 * Value(SubSeq(s, 1, Len(s) - 1)) + DigitVal(s[Len(s)])

\* four dot-separated decimal octets, each with a value in 0..255
DottedQuad(s) ==
  LET parts == Split(s, ".")
  IN /\ Len(parts) = 4
     /\ \A i \in 1..4 :
          Len(parts[i]) > 0 /\ AllIn(parts[i], Digit) /\ Value(parts[i]) <= 255

\* C31: validate accepts an address iff it is four dot-separated decimal
\* octets whose values are each in 0..255 (identity and hostname being valid)
C31_AddressRange ==
  \A p \in Procs :
    (Decoded(p) /\ idRe(req[p].ID) /\ hostnameRe(req[p].Hostname)
       /\ req[p].IP # Empty) =>
      /\ DottedQuad(req[p].IP) <=> validate(req[p]) = ""
      /\ validate(req[p]) = "" <=> outcome[p].kind # "invalid"

\* the half of C31 that the pattern keeps: an accepted address is four
\* dot-separated decimal octets with values in 0..255
C31_AcceptedInRange ==
  \A p \in Procs :
    (Decoded(p) /\ outcome[p].kind # "invalid") => DottedQuad(req[p].IP)

\* the lock record of the hostname of p holds the owner token of p
OwnsLock(p) == Key(p) \in DOMAIN lock /\ lock[Key(p)] = OwnerToken(req[p])

\* C32: a register request is in SelectingRecipe or a later stage only if
\* its set-if-absent call succeeded or the stored owner token it read equals
\* its own; the store call by which it leaves Locking was served and leaves
\* the lock record of its hostname equal to its own owner token
C32_PastLockingOwnsLock ==
  [][\A p \in Procs :
       /\ PostLocking(p)' =>
            /\ "HSetNX" \in trace'[p]
            /\ "storeFail" \notin trace'[p]
            /\ \/ loc'[p].okSet /\ "HGet" \notin trace'[p]
               \/ /\ ~loc'[p].okSet
                  /\ "HGet" \in trace'[p]
                  /\ loc'[p].stored = OwnerToken(req'[p])
       /\ (kind[p] = "register" /\ StageNo(p) = 1 /\ PostLocking(p)') =>
            /\ pc[p] = (IF loc'[p].okSet THEN "hsetnx" ELSE "hget")
            /\ OwnsLock(p)']_vars

\* a retry went past Locking on the token it read, while the lock was held
\* by the first request of the same owner, which is still being served
C32_Witness ==
  \E p, q \in Procs :
    /\ p # q
    /\ PostLocking(p) /\ ~loc[p].okSet /\ loc[p].stored = OwnerToken(req[p])
    /\ PostLocking(q) /\ loc[q].okSet
    /\ StageNo(q) = 5

\* the automation run of the register request of p is under way: the
\* request is in RenamingHost or ApplyingRecipe
Automating(p) == kind[p] = "register" /\ StageNo(p) \in {4, 5}

\* C33: while one register request for a hostname is in RenamingHost or
\* ApplyingRecipe, no other register request for that hostname (an
\* idempotent retry included) is in one of these stages, and none writes
\* the inventory file of that hostname
C33_OneRunPerHostname ==
  [][\A p, q \in Procs :
       (p # q /\ Automating(q)' /\ kind'[p] = "register"
          /\ req'[p].Hostname = req'[q].Hostname)
         => /\ ~Automating(p)'
            /\ ~(Automating(q) /\ Leaves(p, "inventory")
                   /\ "WriteFile" \in trace'[p])]_vars

\* the register request of connection 1 is being served
Serving == kind[1] = "register" /\ ~Idle(1)

\* both stages have a positive deadline
StageDeadlines == StageTimeout(1) > 0 /\ StageTimeout(2) > 0

\* the runner waits for the process only after two completions, one sent by
\* each reader, and none is left on the channel
JoinedBeforeWait ==
  pc[1] = "wait" =>
    /\ run[1].recv = Readers
    /\ \A s \in Streams : run[1].reader[s] = "done"
    /\ run[1].done = << >>

\* C34: the runner has received one completion from each of the two readers
\* when it waits for the process, and with positive stage deadlines every
\* register request eventually ends (Done or Failed), even if the command
\* started by the shell never exits
C34_RequestEnds ==
  /\ []JoinedBeforeWait
  /\ (Serving /\ StageDeadlines) ~> (pc[1] = "done")

\* the part of C34 that holds: the join is complete before the wait, and
\* every register request ends provided the commands started by the shell
\* exit by themselves
C34_EndsIfCommandExits ==
  /\ []JoinedBeforeWait
  /\ WF_vars(ChildExit(1)) => (Serving ~> (pc[1] = "done"))

\* the step ends an unregister request of p for a held lock with the ok reply
Released(p) ==
  /\ kind[p] = "unregister"
  /\ Leaves(p, "udel")
  /\ Key(p) \in DOMAIN lock
  /\ outcome'[p] = Outcome("deleted", 200)

\* the step is the served set-if-absent call of a register request of p
\* that finds no lock record for its hostname
RegistersFree(p) ==
  /\ kind[p] = "register"
  /\ Leaves(p, "hsetnx")
  /\ "storeFail" \notin trace'[p]
  /\ Key(p) \notin DOMAIN lock

\* C35: an unregister that succeeds for a held lock, with a matching guard
\* or without a guard, leaves the hostname without a lock record, and a
\* register for a hostname without a lock record gets Acquired, whatever
\* its owner token, and the stored owner token becomes its own
C35_ReleaseThenRegister ==
  [][\A p \in Procs :
       /\ Released(p) => Key(p) \notin DOMAIN lock'
       /\ RegistersFree(p) =>
            /\ loc'[p].okSet
            /\ pc'[p] = "select"
            /\ lock' = [k \in DOMAIN lock \cup {Key(p)} |->
                          IF k = Key(p) THEN OwnerToken(req[p]) ELSE lock[k]]]_vars

\* C35 for an unregister whose store calls were served
C35_ServedRelease ==
  [][\A p \in Procs :
       /\ (Released(p) /\ "storeFail" \notin trace'[p]) => Key(p) \notin DOMAIN lock'
       /\ RegistersFree(p) =>
            /\ loc'[p].okSet
            /\ pc'[p] = "select"
            /\ lock' = [k \in DOMAIN lock \cup {Key(p)} |->
                          IF k = Key(p) THEN OwnerToken(req[p]) ELSE lock[k]]]_vars

\* the places a sent key is at: in the channel, with the worker that
\* received it, or handled
InChan(k) == Cardinality({i \in 1..Len(fileChan.buf) : fileChan.buf[i] = k})

Held(k) ==
  Cardinality({id \in DOMAIN workers : workers[id].pc = "restore" /\ workers[id].key = k})

Sent == 1..scanner.sent

\* the key channel is closed at most once and only after the last send;
\* every sent key is in one place and is handled at most once; main reports
\* completion only when the channel is closed and every sent key is handled
BatchSafe ==
  /\ fileChan.closes <= 1
  /\ fileChan.closes = 1 <=> scanner.pc = "done"
  /\ scanner.pc = "done" => scanner.left = 0
  /\ DOMAIN handled = Sent
  /\ \A k \in Sent : InChan(k) + Held(k) + handled[k] = 1
  /\ mainPc = "reported" =>
       /\ fileChan.closes = 1
       /\ \A k \in Sent : handled[k] = 1

\* C36: for every worker count and every number of matching objects the
\* batch terminates, the key channel is closed exactly once after the last
\* send, every sent key is handled by exactly one worker, and main reports
\* completion only after every sent key was handled
C36_RestoreBatch ==
  /\ []BatchSafe
  /\ <>(mainPc = "reported")

\* C36 for a worker count of at least one
C36_WithWorkers ==
  /\ [](DOMAIN workers # {} => BatchSafe)
  /\ (DOMAIN workers # {}) ~> (mainPc = "reported")

====
